---- MODULE Spec2Model ----
(***************************************************************************)
(* Repository layer of the blog backend: the Post Store in its persistent  *)
(* (BlogRepositoryForDb) and in-memory (BlogRepositoryForMemory) form, and *)
(* the fold of flat join rows into posts (fold_entities).                  *)
(*                                                                         *)
(* An Option<T> is a sequence: <<>> is None and <<v>> is Some(v).          *)
(* A Vec<T> is a sequence.  A table with a primary key is a function from  *)
(* the keys present to the other columns; blog_tags, which the queries     *)
(* read by blog_id and without ORDER BY, maps a blog_id that has rows to   *)
(* the label_ids of its rows in insertion order.                           *)
(***************************************************************************)
EXTENDS Integers, Sequences, FiniteSets, TLC

VARIABLES
    impl,       \* which implementation of BlogRepository is wired: "db" | "mem" | "fold"
    blogs,      \* table blogs: id -> [title, body]
    blog_tags,  \* table blog_tags: blog_id -> label_ids of its rows
    tags,       \* table tags: id -> name
    next_id,    \* the serial sequence behind blogs.id
    next_tag_id, \* the serial sequence behind tags.id
    store,      \* BlogRepositoryForMemory.store: HashMap<i32, BlogEntity>
    poisoned,   \* the RwLock around store is poisoned (a writer panicked)
    tag_store,  \* TagRepositoryForMemory.store: HashMap<i32, Tag>
    lock,       \* the RwLock around store: [writer: a client or "none", readers]
    serial,     \* history: the map the completed in-memory writes give when each
                \* is applied whole, in the order in which they took the lock
    procs,      \* the calls in flight on the persistent store, one per client task
    ret,        \* the call that returned in the last step, if any
    deleted,    \* history: ids whose delete returned Ok and that no create was given since
    clean,      \* history: the supplied lists are kept and no call has returned an error
    supplied,   \* history, kept while clean: id -> [last: <<list>> of tag ids of the
                \* create/update of that post that gave tags and returned last,
                \* <<>> once such a call has overlapped another call; given: the
                \* lists given since calls overlapped, else the last one]
    written,    \* history, kept while clean on the persistent store: id -> the
                \* titles and the bodies given by the updates of that post that
                \* returned Ok
    foldRows,   \* input of fold_entities
    foldOut     \* result of fold_entities, <<>> before the call

vars == <<impl, blogs, blog_tags, tags, next_id, next_tag_id, store, poisoned,
          tag_store, lock, serial, procs, ret, deleted, clean, supplied, written,
          foldRows, foldOut>>

dbVars == <<blogs, blog_tags, tags, next_id>>
memVars == <<store, poisoned>>
foldVars == <<foldRows, foldOut>>
histVars == <<deleted, clean, supplied, written>>
tagVars == <<next_tag_id, tag_store>>
lockVars == <<lock, serial>>

----------------------------------------------------------------------------
(* Bounds and input sets *)

MaxPosts == 2
MaxRows == 3
MaxTagId == 4

Clients == {"c1", "c2"}
Titles == {"t1", "t2"}
Bodies == {"b1", "b2"}
\* what create is called with, and what update may set
CreateTitles == {"t1"}
CreateBodies == {"b1"}
UpdateTitles == {<<>>, <<"t2">>}
UpdateBodies == {<<>>, <<"b2">>}
\* ids a request may name; each names no post until it is created and after
\* it is deleted
PostIds == 1 .. MaxPosts
InitTags == (1 :> "tag1") @@ (2 :> "tag2")
TagIdsIn == 1 .. MaxTagId
TagNames == {"tag1", "tag2", "tag3"}

RECURSIVE SeqsUpTo(_, _)
SeqsUpTo(S, n) ==
    IF n = 0 THEN {<<>>}
    ELSE LET shorter == SeqsUpTo(S, n - 1)
         IN shorter \cup {Append(s, x) : s \in shorter, x \in S}

\* the tag lists of a request: none, one, two against and in the order of the
\* tags, and one that names a tag that does not exist
DbTagLists == {<<>>, <<1>>, <<2, 1>>, <<3>>}
MemTagLists == {<<>>, <<1>>, <<1, 2>>, <<2, 1>>, <<3>>}
Opt(S) == {<<>>} \cup {<<x>> : x \in S}

----------------------------------------------------------------------------
(* Faulty variants of definitions below: the properties that hold fail     *)
(* once the definition is replaced by its variant.                         *)

\* an insert that keeps the entry the map already has under the key
MemInsertedKeepsOld(st, id, blog) == st @@ (id :> blog)

\* an unwrap_or that forgets the default
unwrap_or_forgets(opt, default) == IF opt = <<>> THEN "" ELSE opt[1]

\* a delete from blog_tags that deletes nothing
DeleteBlogTagsKeeps(bt, id) == bt

\* a select by name that finds no tag
SelectTagByNameMisses(tg, name) == <<>>

\* a write lock that is granted whatever the lock's state
CanWriteAlways(lk) == TRUE

\* a tags table without the unique constraint on name
TagNameFreeAlways(tg, name) == TRUE

\* a search of the tag map by name that finds no entry
TagMemByNameMisses(st, name) == {}

\* an update of blogs without its where clause
UpdateBlogRowAll(b, id, title, body) ==
    [k \in DOMAIN b |-> [title |-> title, body |-> body]]

----------------------------------------------------------------------------
(* Data types *)

Tag(id, name) == [id |-> id, name |-> name]
BlogEntity(id, title, body, tagSeq) ==
    [id |-> id, title |-> title, body |-> body, tags |-> tagSeq]
BlogWithTagFromRow(id, title, body, label_id, tag_name) ==
    [id |-> id, title |-> title, body |-> body,
     label_id |-> label_id, tag_name |-> tag_name]

\* the elements of a Vec, or of an Option
SetOf(seq) == {seq[i] : i \in 1 .. Len(seq)}

\* Option::unwrap_or
unwrap_or(opt, default) == IF opt = <<>> THEN default ELSE opt[1]

\* Outcomes of a call.  "Sqlx" is a storage error that reaches the caller
\* through `?` as it is; "Panic" is an unwinding panic.
Ok(v) == [status |-> "Ok", value |-> v]
Err(kind) == [status |-> kind, value |-> <<>>]

----------------------------------------------------------------------------
(* fold_entities *)

\* position of the first blog of accum with this id, 0 when there is none
RECURSIVE PosOf(_, _, _)
PosOf(accum, id, i) ==
    IF i > Len(accum) THEN 0
    ELSE IF accum[i].id = id THEN i
    ELSE PosOf(accum, id, i + 1)

RECURSIVE FoldLoop(_, _)
FoldLoop(rows, accum) ==
    IF rows = <<>> THEN [panic |-> FALSE, blogs |-> accum]
    ELSE LET row == Head(rows)
             i == PosOf(accum, row.id, 1)
         IN IF i # 0
            THEN \* blog.tags.push(Tag { row.label_id.unwrap(), row.tag_name.unwrap() })
                 IF row.label_id = <<>> \/ row.tag_name = <<>>
                 THEN [panic |-> TRUE, blogs |-> <<>>]
                 ELSE FoldLoop(Tail(rows),
                        [accum EXCEPT ![i].tags =
                            Append(@, Tag(row.label_id[1], row.tag_name[1]))])
            ELSE IF row.label_id # <<>>
                 THEN IF row.tag_name = <<>>
                      THEN [panic |-> TRUE, blogs |-> <<>>]
                      ELSE FoldLoop(Tail(rows),
                             Append(accum, BlogEntity(row.id, row.title, row.body,
                                 <<Tag(row.label_id[1], row.tag_name[1])>>)))
                 ELSE FoldLoop(Tail(rows),
                        Append(accum, BlogEntity(row.id, row.title, row.body, <<>>)))

fold_entities(rows) == FoldLoop(rows, <<>>)

----------------------------------------------------------------------------
(* The statements BlogRepositoryForDb sends, as functions of the tables.   *)
(* Every statement is sent on the pool (&self.pool), so each one is its    *)
(* own implicit transaction: it takes effect when it is executed.          *)

Max(S) == CHOOSE x \in S : \A y \in S : y <= x

\* the label_ids of the rows of blog_tags of one blog, in table order
TagRowsOf(bt, id) == IF id \in DOMAIN bt THEN bt[id] ELSE <<>>

\* select blogs.*, tags.id as label_id, tags.name as tag_name
\* from blogs left outer join blog_tags tl ... left outer join tags ... where blogs.id=$1
JoinRows(b, bt, tg, id) ==
    IF id \notin DOMAIN b THEN <<>>
    ELSE LET assoc == TagRowsOf(bt, id)
             nullRow == BlogWithTagFromRow(id, b[id].title, b[id].body, <<>>, <<>>)
         IN IF assoc = <<>> THEN <<nullRow>>
            ELSE [i \in 1 .. Len(assoc) |->
                    IF assoc[i] \in DOMAIN tg
                    THEN BlogWithTagFromRow(id, b[id].title, b[id].body,
                             <<assoc[i]>>, <<tg[assoc[i]]>>)
                    ELSE nullRow]

\* the same join without the where clause, order by blogs.id desc
RECURSIVE JoinAllRows(_, _, _, _)
JoinAllRows(b, bt, tg, ids) ==
    IF ids = {} THEN <<>>
    ELSE LET id == Max(ids)
         IN JoinRows(b, bt, tg, id) \o JoinAllRows(b, bt, tg, ids \ {id})

\* BlogRepositoryForDb::find, with no storage fault
DbFind(b, bt, tg, id) ==
    LET f == fold_entities(JoinRows(b, bt, tg, id))
    IN IF f.panic THEN Err("Panic")
       ELSE IF f.blogs = <<>> THEN Err("NotFound")
       ELSE Ok(<<f.blogs[1]>>)

\* BlogRepositoryForDb::all, with no storage fault
DbAll(b, bt, tg) ==
    LET f == fold_entities(JoinAllRows(b, bt, tg, DOMAIN b))
    IN IF f.panic THEN Err("Panic") ELSE Ok(f.blogs)

\* insert into blogs (title, body) values ($1, $2) returning *
InsertBlog(b, id, title, body) == (id :> [title |-> title, body |-> body]) @@ b

\* update blogs set title=$1, body=$2 where id=$3 returning *
UpdateBlogRow(b, id, title, body) ==
    [b EXCEPT ![id] = [title |-> title, body |-> body]]

\* the foreign keys of blog_tags: blog_id references blogs, label_id references tags
FkHolds(b, tg, id, tagList) ==
    \A i \in 1 .. Len(tagList) : id \in DOMAIN b /\ tagList[i] \in DOMAIN tg

\* insert into blog_tags (blog_id, label_id) select $1, id from unnest($2) as t(id)
InsertBlogTags(bt, id, tagList) ==
    IF tagList = <<>> THEN bt
    ELSE (id :> (TagRowsOf(bt, id) \o tagList)) @@ bt

\* delete from blog_tags where blog_id=$1
DeleteBlogTags(bt, id) == [k \in DOMAIN bt \ {id} |-> bt[k]]

\* on delete cascade from blogs to blog_tags
CascadeBlog(bt, id) == [k \in DOMAIN bt \ {id} |-> bt[k]]

\* delete from blogs where id=$1
DeleteBlogRow(b, id) == [k \in DOMAIN b \ {id} |-> b[k]]

----------------------------------------------------------------------------
(* Calls in flight and returns *)

\* the RwLock with no guard alive
NoLock == [writer |-> "none", readers |-> {}]

IdleProc ==
    [op |-> "idle", pc |-> "idle", id |-> 0, title |-> <<>>, body |-> <<>>,
     tagsP |-> <<>>, old |-> <<>>, pre |-> <<>>, alone |-> TRUE, name |-> ""]

NoRet ==
    [op |-> "none", id |-> 0, title |-> <<>>, body |-> <<>>, tagsP |-> <<>>,
     status |-> "none", value |-> <<>>, pre |-> <<>>, alone |-> TRUE, name |-> ""]

\* the return of the call described by proc record c with outcome r
Return(c, r) ==
    [op |-> c.op, id |-> c.id, title |-> c.title, body |-> c.body, tagsP |-> c.tagsP,
     status |-> r.status, value |-> r.value, pre |-> c.pre, alone |-> c.alone,
     name |-> c.name]

Idle(p) == procs[p].pc = "idle"

\* no result is waiting for the handler that made the call
Ready == ret.op = "none"

\* a call of client p starts; pre keeps the tables as the call found them,
\* alone whether no other call was in flight
Started(p, c) ==
    [procs EXCEPT ![p] = [c EXCEPT !.pre = <<blogs, blog_tags>>,
                                   !.alone = \A q \in Clients \ {p} : Idle(q)]]

Finished(p) == [procs EXCEPT ![p] = IdleProc]

\* the history variables after the return rt
HistAfter(rt) ==
    /\ clean' = (clean /\ rt.status = "Ok")
    /\ deleted' = IF rt.op = "delete" /\ rt.status = "Ok" THEN deleted \cup {rt.id}
                  ELSE deleted
    /\ supplied' = IF ~clean \/ rt.status # "Ok" THEN <<>>
                   ELSE IF rt.op \in {"create", "update"} /\ rt.tagsP # <<>>
                   THEN (rt.id :>
                           IF rt.id \in DOMAIN supplied
                           THEN IF rt.alone /\ supplied[rt.id].last # <<>>
                                THEN [given |-> {rt.tagsP[1]}, last |-> <<rt.tagsP[1]>>]
                                ELSE [given |-> supplied[rt.id].given \cup {rt.tagsP[1]},
                                      last |-> <<>>]
                           ELSE [given |-> {rt.tagsP[1]},
                                 last |-> IF rt.alone THEN <<rt.tagsP[1]>> ELSE <<>>])
                        @@ supplied
                   ELSE supplied
    /\ written' = IF impl # "db" \/ ~clean \/ rt.status # "Ok" THEN <<>>
                  ELSE IF rt.op = "update"
                  THEN LET had == IF rt.id \in DOMAIN written THEN written[rt.id]
                                  ELSE [title |-> {}, body |-> {}]
                       IN (rt.id :> [title |-> had.title \cup SetOf(rt.title),
                                     body |-> had.body \cup SetOf(rt.body)])
                            @@ written
                  ELSE written

\* a step of a call that does not return
Continue(p, c) ==
    /\ procs' = [procs EXCEPT ![p] = c]
    /\ ret' = NoRet
    /\ UNCHANGED histVars

\* the step in which the call of client p returns outcome r
Returns(p, r) ==
    /\ procs' = Finished(p)
    /\ ret' = Return(procs[p], r)
    /\ HistAfter(Return(procs[p], r))

----------------------------------------------------------------------------
(* BlogRepositoryForDb.  A call is a sequence of statements, one per await; *)
(* other clients' statements may run between two of them.  pool.begin()    *)
(* and tx.commit() open and close a transaction that no statement is sent  *)
(* on: they change nothing and roll nothing back.  A statement fails when  *)
(* it breaks a constraint or when fetch_one gets no row; the storage       *)
(* engine going away in the middle of a call is not modelled.              *)

\* create: pool.begin(); insert into blogs
Db_create_insert_blog(p, title, body, tagList) ==
    LET c == [IdleProc EXCEPT !.op = "create", !.pc = "insert_tags", !.id = next_id,
                              !.title = <<title>>, !.body = <<body>>, !.tagsP = <<tagList>>]
    IN /\ impl = "db" /\ Ready /\ Idle(p)
       /\ next_id <= MaxPosts
       /\ blogs' = InsertBlog(blogs, next_id, title, body)
       /\ next_id' = next_id + 1
       /\ procs' = Started(p, c)
       /\ ret' = NoRet
       /\ deleted' = deleted \ {next_id}
       /\ UNCHANGED <<impl, tagVars, lockVars, blog_tags, tags, clean, supplied, written,
                      memVars, foldVars>>

\* create: insert into blog_tags
Db_create_insert_tags(p) ==
    LET c == procs[p]
    IN /\ impl = "db" /\ Ready /\ c.op = "create" /\ c.pc = "insert_tags"
       /\ IF ~FkHolds(blogs, tags, c.id, c.tagsP[1])
          THEN /\ Returns(p, Err("Sqlx"))
               /\ UNCHANGED dbVars
          ELSE /\ blog_tags' = InsertBlogTags(blog_tags, c.id, c.tagsP[1])
               /\ Continue(p, [c EXCEPT !.pc = "commit_find"])
               /\ UNCHANGED <<blogs, tags, next_id>>
       /\ UNCHANGED <<impl, tagVars, lockVars, memVars, foldVars>>

\* create: tx.commit(); self.find(row.id)
Db_create_commit_find(p) ==
    LET c == procs[p]
    IN /\ impl = "db" /\ Ready /\ c.op = "create" /\ c.pc = "commit_find"
       /\ Returns(p, DbFind(blogs, blog_tags, tags, c.id))
       /\ UNCHANGED <<impl, tagVars, lockVars, dbVars, memVars, foldVars>>

\* find: one select
Db_find(p, id) ==
    /\ impl = "db" /\ Ready /\ Idle(p)
    /\ ret' = Return([IdleProc EXCEPT !.op = "find", !.id = id,
                                      !.pre = <<blogs, blog_tags>>],
                     DbFind(blogs, blog_tags, tags, id))
    /\ HistAfter(ret')
    /\ UNCHANGED <<impl, tagVars, lockVars, dbVars, memVars, foldVars, procs>>

\* all: one select
Db_all(p) ==
    /\ impl = "db" /\ Ready /\ Idle(p)
    /\ ret' = Return([IdleProc EXCEPT !.op = "all", !.pre = <<blogs, blog_tags>>],
                     DbAll(blogs, blog_tags, tags))
    /\ HistAfter(ret')
    /\ UNCHANGED <<impl, tagVars, lockVars, dbVars, memVars, foldVars, procs>>

\* update: pool.begin(); self.find(id)
Db_update_find(p, id, title, body, tagsP) ==
    LET c == [IdleProc EXCEPT !.op = "update", !.pc = "update_row", !.id = id,
                              !.title = title, !.body = body, !.tagsP = tagsP]
        found == DbFind(blogs, blog_tags, tags, id)
    IN /\ impl = "db" /\ Ready /\ Idle(p)
       /\ IF found.status # "Ok"
          THEN /\ procs' = [Started(p, c) EXCEPT ![p] = IdleProc]
               /\ ret' = Return(Started(p, c)[p], found)
               /\ HistAfter(Return(Started(p, c)[p], found))
          ELSE /\ procs' = Started(p, [c EXCEPT !.old = found.value])
               /\ ret' = NoRet
               /\ UNCHANGED histVars
       /\ UNCHANGED <<impl, tagVars, lockVars, dbVars, memVars, foldVars>>

\* update: update blogs set title, body ... returning * (fetch_one)
Db_update_row(p) ==
    LET c == procs[p]
        old_blog == c.old[1]
    IN /\ impl = "db" /\ Ready /\ c.op = "update" /\ c.pc = "update_row"
       /\ IF c.id \notin DOMAIN blogs
          THEN /\ Returns(p, Err("Sqlx"))
               /\ UNCHANGED dbVars
          ELSE /\ blogs' = UpdateBlogRow(blogs, c.id, unwrap_or(c.title, old_blog.title),
                                         unwrap_or(c.body, old_blog.body))
               /\ Continue(p, [c EXCEPT !.pc = IF c.tagsP # <<>> THEN "delete_tags"
                                                ELSE "commit_find"])
               /\ UNCHANGED <<blog_tags, tags, next_id>>
       /\ UNCHANGED <<impl, tagVars, lockVars, memVars, foldVars>>

\* update, tags given: delete from blog_tags
Db_update_delete_tags(p) ==
    LET c == procs[p]
    IN /\ impl = "db" /\ Ready /\ c.op = "update" /\ c.pc = "delete_tags"
       /\ blog_tags' = DeleteBlogTags(blog_tags, c.id)
       /\ Continue(p, [c EXCEPT !.pc = "insert_tags"])
       /\ UNCHANGED <<blogs, tags, next_id>>
       /\ UNCHANGED <<impl, tagVars, lockVars, memVars, foldVars>>

\* update, tags given: insert into blog_tags
Db_update_insert_tags(p) ==
    LET c == procs[p]
    IN /\ impl = "db" /\ Ready /\ c.op = "update" /\ c.pc = "insert_tags"
       /\ IF ~FkHolds(blogs, tags, c.id, c.tagsP[1])
          THEN /\ Returns(p, Err("Sqlx"))
               /\ UNCHANGED dbVars
          ELSE /\ blog_tags' = InsertBlogTags(blog_tags, c.id, c.tagsP[1])
               /\ Continue(p, [c EXCEPT !.pc = "commit_find"])
               /\ UNCHANGED <<blogs, tags, next_id>>
       /\ UNCHANGED <<impl, tagVars, lockVars, memVars, foldVars>>

\* update: tx.commit(); self.find(id)
Db_update_commit_find(p) ==
    LET c == procs[p]
    IN /\ impl = "db" /\ Ready /\ c.op = "update" /\ c.pc = "commit_find"
       /\ Returns(p, DbFind(blogs, blog_tags, tags, c.id))
       /\ UNCHANGED <<impl, tagVars, lockVars, dbVars, memVars, foldVars>>

\* delete: pool.begin(); delete from blog_tags
Db_delete_tags(p, id) ==
    LET c == [IdleProc EXCEPT !.op = "delete", !.pc = "delete_row", !.id = id]
    IN /\ impl = "db" /\ Ready /\ Idle(p)
       /\ blog_tags' = DeleteBlogTags(blog_tags, id)
       /\ procs' = Started(p, c)
       /\ ret' = NoRet
       /\ UNCHANGED <<impl, tagVars, lockVars, blogs, tags, next_id, histVars, memVars, foldVars>>

\* delete: delete from blogs (execute: no row is no error); tx.commit()
Db_delete_row(p) ==
    LET c == procs[p]
    IN /\ impl = "db" /\ Ready /\ c.op = "delete" /\ c.pc = "delete_row"
       /\ blogs' = DeleteBlogRow(blogs, c.id)
       /\ blog_tags' = CascadeBlog(blog_tags, c.id)
       /\ Returns(p, Ok(<<>>))
       /\ UNCHANGED <<tags, next_id>>
       /\ UNCHANGED <<impl, tagVars, lockVars, memVars, foldVars>>

----------------------------------------------------------------------------
(* BlogRepositoryForMemory.  Every method takes the lock on entry and holds *)
(* it to its end, and has no await in between: a call is one step.  A      *)
(* panic while the write guard is held poisons the lock, and               *)
(* write_store_ref / read_store_ref unwrap the lock result.                *)

\* BlogRepositoryForMemory.tags, given to new()
MemTags == <<Tag(1, "tag1"), Tag(2, "tag2")>>

\* Iterator::find on tag_list from position i: the position of the match, 0 when
\* the iterator runs out
RECURSIVE IterFind(_, _)
IterFind(id, i) ==
    IF i > Len(MemTags) THEN 0
    ELSE IF MemTags[i].id = id THEN i
    ELSE IterFind(id, i + 1)

\* resolve_tags: one iterator over self.tags serves every id of the list
RECURSIVE ResolveFrom(_, _)
ResolveFrom(ids, i) ==
    IF ids = <<>> THEN [panic |-> FALSE, tags |-> <<>>]
    ELSE LET j == IterFind(Head(ids), i)
         IN IF j = 0 THEN [panic |-> TRUE, tags |-> <<>>]
            ELSE LET rest == ResolveFrom(Tail(ids), j + 1)
                 IN IF rest.panic THEN rest
                    ELSE [panic |-> FALSE, tags |-> <<MemTags[j]>> \o rest.tags]

resolve_tags(ids) == ResolveFrom(ids, 1)

MemCall(op, id, title, body, tagsP) ==
    [IdleProc EXCEPT !.op = op, !.id = id, !.title = title, !.body = body,
                     !.tagsP = tagsP, !.pre = <<store>>]

\* what create stores and returns, given the resolved tags
MemCreated(id, title, body, tagSeq) == BlogEntity(id, title, body, tagSeq)

\* what update stores and returns
MemUpdated(blog, id, title, body, tagSeq) ==
    BlogEntity(id, unwrap_or(title, blog.title), unwrap_or(body, blog.body), tagSeq)

\* HashMap::insert
MemInserted(st, id, blog) == (id :> blog) @@ st

\* HashMap::remove
MemRemoved(st, id) == [k \in DOMAIN st \ {id} |-> st[k]]

\* BlogRepositoryForMemory::find on a lock that is not poisoned
MemFind(st, id) == IF id \in DOMAIN st THEN Ok(<<st[id]>>) ELSE Err("NotFound")

Mem_create(title, body, tagList) ==
    LET id == Cardinality(DOMAIN store) + 1
        r == resolve_tags(tagList)
        blog == MemCreated(id, title, body, r.tags)
        c == MemCall("create", id, <<title>>, <<body>>, <<tagList>>)
    IN /\ impl = "mem" /\ Ready
       /\ Cardinality(DOMAIN store) < MaxPosts
       /\ IF poisoned \/ r.panic
          THEN /\ ret' = Return(c, Err("Panic"))
               /\ poisoned' = TRUE
               /\ store' = store
          ELSE /\ store' = MemInserted(store, id, blog)
               /\ ret' = Return(c, Ok(<<blog>>))
               /\ poisoned' = poisoned
       /\ clean' = (clean /\ ret'.status = "Ok")
       /\ deleted' = IF ret'.status = "Ok" THEN deleted \ {id} ELSE deleted
       /\ supplied' = IF clean'
                      THEN (id :> [given |-> {tagList}, last |-> <<tagList>>]) @@ supplied
                      ELSE <<>>
       /\ written' = written
       /\ UNCHANGED <<impl, tagVars, lockVars, dbVars, foldVars, procs>>

Mem_find(id) ==
    /\ impl = "mem" /\ Ready
    /\ ret' = Return(MemCall("find", id, <<>>, <<>>, <<>>),
                     IF poisoned THEN Err("Panic") ELSE MemFind(store, id))
    /\ HistAfter(ret')
    /\ UNCHANGED <<impl, tagVars, lockVars, dbVars, memVars, foldVars, procs>>

\* the orders in which HashMap::values may yield the entries
Orders(S) == {o \in [1 .. Cardinality(S) -> S] : \A i, j \in DOMAIN o : i # j => o[i] # o[j]}

Mem_all(order) ==
    /\ impl = "mem" /\ Ready
    /\ order \in Orders(DOMAIN store)
    /\ ret' = Return(MemCall("all", 0, <<>>, <<>>, <<>>),
                     IF poisoned THEN Err("Panic")
                     ELSE Ok([i \in DOMAIN order |-> store[order[i]]]))
    /\ HistAfter(ret')
    /\ UNCHANGED <<impl, tagVars, lockVars, dbVars, memVars, foldVars, procs>>

Mem_update(id, title, body, tagsP) ==
    LET c == MemCall("update", id, title, body, tagsP)
        blog == store[id]
        r == IF tagsP # <<>> THEN resolve_tags(tagsP[1])
             ELSE [panic |-> FALSE, tags |-> blog.tags]
        new == MemUpdated(blog, id, title, body, r.tags)
    IN /\ impl = "mem" /\ Ready
       /\ IF poisoned
          THEN /\ ret' = Return(c, Err("Panic"))
               /\ UNCHANGED memVars
          ELSE IF id \notin DOMAIN store
          THEN /\ ret' = Return(c, Err("NotFound"))
               /\ UNCHANGED memVars
          ELSE IF r.panic
          THEN /\ ret' = Return(c, Err("Panic"))
               /\ poisoned' = TRUE
               /\ store' = store
          ELSE /\ store' = MemInserted(store, id, new)
               /\ ret' = Return(c, Ok(<<new>>))
               /\ poisoned' = poisoned
       /\ HistAfter(ret')
       /\ UNCHANGED <<impl, tagVars, lockVars, dbVars, foldVars, procs>>

Mem_delete(id) ==
    LET c == MemCall("delete", id, <<>>, <<>>, <<>>)
    IN /\ impl = "mem" /\ Ready
       /\ IF poisoned
          THEN /\ ret' = Return(c, Err("Panic"))
               /\ UNCHANGED memVars
          ELSE IF id \notin DOMAIN store
          THEN /\ ret' = Return(c, Err("NotFound"))
               /\ UNCHANGED memVars
          ELSE /\ store' = MemRemoved(store, id)
               /\ ret' = Return(c, Ok(<<>>))
               /\ poisoned' = poisoned
       /\ HistAfter(ret')
       /\ UNCHANGED <<impl, tagVars, lockVars, dbVars, foldVars, procs>>

----------------------------------------------------------------------------
(* BlogRepositoryForMemory called by several client tasks at once.  A call  *)
(* takes the RwLock around store (write_store_ref / read_store_ref), reads  *)
(* the map, changes it, and drops the guard when it returns; other tasks'   *)
(* steps may run between two steps of a call.                               *)

\* RwLock::write is granted when no guard is out
CanWrite(lk) == lk.writer = "none" /\ lk.readers = {}

\* RwLock::read is granted when no write guard is out
CanRead(lk) == lk.writer = "none"

\* the call of client p takes the lock, or panics on the poisoned lock
Locked(p, c, lk) ==
    IF poisoned
    THEN /\ ret' = Return(c, Err("Panic"))
         /\ UNCHANGED <<procs, lock>>
    ELSE /\ procs' = [procs EXCEPT ![p] = [c EXCEPT !.pc = "locked"]]
         /\ lock' = lk
         /\ ret' = NoRet

\* the guard of client p is dropped
Unlocked(p) ==
    [writer |-> IF lock.writer = p THEN "none" ELSE lock.writer,
     readers |-> lock.readers \ {p}]

\* the call of client p returns outcome r and drops its guard; pre is the
\* history map the call was applied to
Leaves(p, r) ==
    /\ procs' = Finished(p)
    /\ lock' = Unlocked(p)
    /\ ret' = Return([procs[p] EXCEPT !.pre = <<serial>>], r)

\* the map after the write call c is applied whole to the map st
Whole(st, c) ==
    IF c.op = "create"
    THEN LET id == Cardinality(DOMAIN st) + 1
         IN MemInserted(st, id,
                MemCreated(id, c.title[1], c.body[1], resolve_tags(c.tagsP[1]).tags))
    ELSE IF c.id \notin DOMAIN st THEN st
    ELSE IF c.op = "delete" THEN MemRemoved(st, c.id)
    ELSE MemInserted(st, c.id,
            MemUpdated(st[c.id], c.id, c.title, c.body,
                IF c.tagsP # <<>> THEN resolve_tags(c.tagsP[1]).tags
                ELSE st[c.id].tags))

\* create: let mut store = self.write_store_ref()
MemConc_create_lock(p, title, body, tagList) ==
    /\ impl = "memc" /\ Ready /\ Idle(p)
    /\ Cardinality(DOMAIN store) < MaxPosts
    /\ CanWrite(lock)
    /\ Locked(p, MemCall("create", 0, <<title>>, <<body>>, <<tagList>>),
              [lock EXCEPT !.writer = p])
    /\ UNCHANGED <<impl, tagVars, serial, dbVars, memVars, histVars, foldVars>>

\* create: let id = (store.len() + 1) as i32
MemConc_create_len(p) ==
    /\ impl = "memc" /\ Ready
    /\ procs[p].op = "create" /\ procs[p].pc = "locked"
    /\ procs' = [procs EXCEPT ![p] = [@ EXCEPT !.pc = "insert",
                                               !.id = Cardinality(DOMAIN store) + 1]]
    /\ ret' = NoRet
    /\ UNCHANGED <<impl, tagVars, lockVars, dbVars, memVars, histVars, foldVars>>

\* create: resolve_tags, store.insert(id, blog), Ok(blog)
MemConc_create_insert(p) ==
    LET c == procs[p]
        r == resolve_tags(c.tagsP[1])
        blog == MemCreated(c.id, c.title[1], c.body[1], r.tags)
    IN /\ impl = "memc" /\ Ready
       /\ c.op = "create" /\ c.pc = "insert"
       /\ IF r.panic
          THEN /\ Leaves(p, Err("Panic"))
               /\ poisoned' = TRUE
               /\ UNCHANGED <<store, serial>>
          ELSE /\ store' = MemInserted(store, c.id, blog)
               /\ serial' = Whole(serial, c)
               /\ Leaves(p, Ok(<<blog>>))
               /\ poisoned' = poisoned
       /\ UNCHANGED <<impl, tagVars, dbVars, histVars, foldVars>>

\* find: let store = self.read_store_ref()
MemConc_find_lock(p, id) ==
    /\ impl = "memc" /\ Ready /\ Idle(p)
    /\ CanRead(lock)
    /\ Locked(p, MemCall("find", id, <<>>, <<>>, <<>>),
              [lock EXCEPT !.readers = @ \cup {p}])
    /\ UNCHANGED <<impl, tagVars, serial, dbVars, memVars, histVars, foldVars>>

\* find: store.get(&id), clone, or NotFound
MemConc_find_get(p) ==
    /\ impl = "memc" /\ Ready
    /\ procs[p].op = "find" /\ procs[p].pc = "locked"
    /\ Leaves(p, MemFind(store, procs[p].id))
    /\ UNCHANGED <<impl, tagVars, serial, dbVars, memVars, histVars, foldVars>>

\* all: let store = self.read_store_ref()
MemConc_all_lock(p) ==
    /\ impl = "memc" /\ Ready /\ Idle(p)
    /\ CanRead(lock)
    /\ Locked(p, MemCall("all", 0, <<>>, <<>>, <<>>),
              [lock EXCEPT !.readers = @ \cup {p}])
    /\ UNCHANGED <<impl, tagVars, serial, dbVars, memVars, histVars, foldVars>>

\* all: store.values() cloned into a Vec
MemConc_all_values(p, order) ==
    /\ impl = "memc" /\ Ready
    /\ procs[p].op = "all" /\ procs[p].pc = "locked"
    /\ order \in Orders(DOMAIN store)
    /\ Leaves(p, Ok([i \in DOMAIN order |-> store[order[i]]]))
    /\ UNCHANGED <<impl, tagVars, serial, dbVars, memVars, histVars, foldVars>>

\* update: let mut store = self.write_store_ref()
MemConc_update_lock(p, id, title, body, tagsP) ==
    /\ impl = "memc" /\ Ready /\ Idle(p)
    /\ CanWrite(lock)
    /\ Locked(p, MemCall("update", id, title, body, tagsP),
              [lock EXCEPT !.writer = p])
    /\ UNCHANGED <<impl, tagVars, serial, dbVars, memVars, histVars, foldVars>>

\* update: store.get(&id).context(NotFound)?
MemConc_update_get(p) ==
    LET c == procs[p]
    IN /\ impl = "memc" /\ Ready
       /\ c.op = "update" /\ c.pc = "locked"
       /\ IF c.id \notin DOMAIN store
          THEN /\ Leaves(p, Err("NotFound"))
               /\ serial' = Whole(serial, c)
          ELSE /\ procs' = [procs EXCEPT ![p] = [c EXCEPT !.pc = "insert",
                                                         !.old = <<store[c.id]>>]]
               /\ ret' = NoRet
               /\ UNCHANGED lockVars
       /\ UNCHANGED <<impl, tagVars, dbVars, memVars, histVars, foldVars>>

\* update: the new entity from the payload and the blog read, store.insert,
\* Ok(blog)
MemConc_update_insert(p) ==
    LET c == procs[p]
        blog == c.old[1]
        r == IF c.tagsP # <<>> THEN resolve_tags(c.tagsP[1])
             ELSE [panic |-> FALSE, tags |-> blog.tags]
        new == MemUpdated(blog, c.id, c.title, c.body, r.tags)
    IN /\ impl = "memc" /\ Ready
       /\ c.op = "update" /\ c.pc = "insert"
       /\ IF r.panic
          THEN /\ Leaves(p, Err("Panic"))
               /\ poisoned' = TRUE
               /\ UNCHANGED <<store, serial>>
          ELSE /\ store' = MemInserted(store, c.id, new)
               /\ serial' = Whole(serial, c)
               /\ Leaves(p, Ok(<<new>>))
               /\ poisoned' = poisoned
       /\ UNCHANGED <<impl, tagVars, dbVars, histVars, foldVars>>

\* delete: let mut store = self.write_store_ref()
MemConc_delete_lock(p, id) ==
    /\ impl = "memc" /\ Ready /\ Idle(p)
    /\ CanWrite(lock)
    /\ Locked(p, MemCall("delete", id, <<>>, <<>>, <<>>),
              [lock EXCEPT !.writer = p])
    /\ UNCHANGED <<impl, tagVars, serial, dbVars, memVars, histVars, foldVars>>

\* delete: store.remove(&id).ok_or(NotFound)?
MemConc_delete_remove(p) ==
    LET c == procs[p]
    IN /\ impl = "memc" /\ Ready
       /\ c.op = "delete" /\ c.pc = "locked"
       /\ Leaves(p, IF c.id \in DOMAIN store THEN Ok(<<>>) ELSE Err("NotFound"))
       /\ store' = MemRemoved(store, c.id)
       /\ serial' = Whole(serial, c)
       /\ UNCHANGED <<impl, tagVars, poisoned, dbVars, histVars, foldVars>>

----------------------------------------------------------------------------
(* TagRepositoryForDb: the statements it sends, and its calls.  create is   *)
(* a select by name followed by an insert, two statements on the pool; all *)
(* and delete are one statement each.                                      *)

Min(S) == CHOOSE x \in S : \A y \in S : x <= y

\* select * from tags where name = $1 (fetch_optional)
SelectTagByName(tg, name) ==
    LET hits == {i \in DOMAIN tg : tg[i] = name}
    IN IF hits = {} THEN <<>> ELSE <<Tag(Min(hits), name)>>

\* the unique constraint on tags.name
TagNameFree(tg, name) == \A i \in DOMAIN tg : tg[i] # name

\* insert into tags (name) values ($1) returning *
InsertTag(tg, id, name) == (id :> name) @@ tg

\* delete from tags where id=$1
DeleteTagRow(tg, id) == [k \in DOMAIN tg \ {id} |-> tg[k]]

\* on delete cascade from tags to blog_tags
CascadeTag(bt, id) ==
    LET kept == [k \in DOMAIN bt |-> SelectSeq(bt[k], LAMBDA l : l # id)]
    IN [k \in {j \in DOMAIN bt : kept[j] # <<>>} |-> kept[k]]

\* select * from tags order by tags.id asc
RECURSIVE TagsAscending(_, _)
TagsAscending(tg, ids) ==
    IF ids = {} THEN <<>>
    ELSE <<Tag(Min(ids), tg[Min(ids)])>> \o TagsAscending(tg, ids \ {Min(ids)})

DbTagAll(tg) == Ok(TagsAscending(tg, DOMAIN tg))

\* a call on the Tag Store starts; pre keeps the tables as the call found them
StartedTag(p, c) ==
    [procs EXCEPT ![p] = [c EXCEPT !.pre = <<tags, blog_tags>>,
                                   !.alone = \A q \in Clients \ {p} : Idle(q)]]

\* create: select * from tags where name = $1
Tag_db_create_select(p, name) ==
    LET c == [IdleProc EXCEPT !.op = "tag_create", !.pc = "insert_tag", !.name = name]
        optional_tag == SelectTagByName(tags, name)
    IN /\ impl = "db" /\ Ready /\ Idle(p)
       /\ next_tag_id <= MaxTagId
       /\ IF optional_tag # <<>>
          THEN /\ procs' = procs
               /\ ret' = Return([StartedTag(p, c)[p] EXCEPT !.id = optional_tag[1].id],
                                Err("Duplicate"))
               /\ HistAfter(ret')
          ELSE /\ procs' = StartedTag(p, c)
               /\ ret' = NoRet
               /\ UNCHANGED histVars
       /\ UNCHANGED <<impl, tagVars, lockVars, dbVars, memVars, foldVars>>

\* create: insert into tags (fetch_one)
Tag_db_create_insert(p) ==
    LET c == procs[p]
    IN /\ impl = "db" /\ Ready /\ c.op = "tag_create" /\ c.pc = "insert_tag"
       /\ IF ~TagNameFree(tags, c.name)
          THEN /\ Returns(p, Err("Sqlx"))
               /\ UNCHANGED <<tags, next_tag_id>>
          ELSE /\ tags' = InsertTag(tags, next_tag_id, c.name)
               /\ next_tag_id' = next_tag_id + 1
               /\ procs' = Finished(p)
               /\ ret' = Return([c EXCEPT !.id = next_tag_id],
                                Ok(<<Tag(next_tag_id, c.name)>>))
               /\ HistAfter(ret')
       /\ UNCHANGED <<impl, tag_store, lockVars, blogs, blog_tags, next_id, memVars,
                      foldVars>>

\* all: one select
Tag_db_all(p) ==
    /\ impl = "db" /\ Ready /\ Idle(p)
    /\ ret' = Return([IdleProc EXCEPT !.op = "tag_all", !.pre = <<tags, blog_tags>>],
                     DbTagAll(tags))
    /\ HistAfter(ret')
    /\ UNCHANGED <<impl, tagVars, lockVars, dbVars, memVars, foldVars, procs>>

\* delete: delete from tags (execute: no row is no error)
Tag_db_delete(p, id) ==
    /\ impl = "db" /\ Ready /\ Idle(p)
    /\ tags' = DeleteTagRow(tags, id)
    /\ blog_tags' = CascadeTag(blog_tags, id)
    /\ ret' = Return([IdleProc EXCEPT !.op = "tag_delete", !.id = id,
                                      !.pre = <<tags, blog_tags>>],
                     Ok(<<>>))
    /\ HistAfter(ret')
    /\ UNCHANGED <<impl, tagVars, lockVars, blogs, next_id, memVars, foldVars, procs>>

----------------------------------------------------------------------------
(* TagRepositoryForMemory.  Every method holds the lock of its map from its *)
(* first line to its last and has no await: a call is one step.            *)

TagMemCall(op, id, name) ==
    [IdleProc EXCEPT !.op = op, !.id = id, !.name = name, !.pre = <<tag_store>>]

\* the entries store.iter().find(|(_, tag)| tag.name == name) may yield
TagMemByName(st, name) == {k \in DOMAIN st : st[k].name = name}

TagMem_create(name) ==
    LET id == Cardinality(DOMAIN tag_store) + 1
        tag == Tag(id, name)
    IN /\ impl = "mem" /\ Ready
       /\ IF TagMemByName(tag_store, name) # {}
          THEN \E k \in TagMemByName(tag_store, name) :
                  /\ ret' = Return(TagMemCall("tag_create", k, name),
                                   Ok(<<tag_store[k]>>))
                  /\ tag_store' = tag_store
          ELSE /\ tag_store' = (id :> tag) @@ tag_store
               /\ ret' = Return(TagMemCall("tag_create", id, name), Ok(<<tag>>))
       /\ HistAfter(ret')
       /\ UNCHANGED <<impl, next_tag_id, lockVars, dbVars, memVars, foldVars, procs>>

TagMem_all(order) ==
    /\ impl = "mem" /\ Ready
    /\ order \in Orders(DOMAIN tag_store)
    /\ ret' = Return(TagMemCall("tag_all", 0, ""),
                     Ok([i \in DOMAIN order |-> tag_store[order[i]]]))
    /\ HistAfter(ret')
    /\ UNCHANGED <<impl, tagVars, lockVars, dbVars, memVars, foldVars, procs>>

TagMem_delete(id) ==
    /\ impl = "mem" /\ Ready
    /\ IF id \notin DOMAIN tag_store
       THEN /\ ret' = Return(TagMemCall("tag_delete", id, ""), Err("NotFound"))
            /\ tag_store' = tag_store
       ELSE /\ tag_store' = [k \in DOMAIN tag_store \ {id} |-> tag_store[k]]
            /\ ret' = Return(TagMemCall("tag_delete", id, ""), Ok(<<>>))
    /\ HistAfter(ret')
    /\ UNCHANGED <<impl, next_tag_id, lockVars, dbVars, memVars, foldVars, procs>>

----------------------------------------------------------------------------
(* fold_entities on arbitrary rows *)

\* the tag fields of a row: both null, or the id and the name of a tag
TagFields == {<<<<>>, <<>>>>, <<<<1>>, <<"tag1">>>>, <<<<2>>, <<"tag2">>>>}

FlatRows ==
    {BlogWithTagFromRow(id, title, "b1", tf[1], tf[2]) :
        id \in 1 .. 2, title \in Titles, tf \in TagFields}

Fold_call ==
    /\ impl = "fold"
    /\ foldOut = <<>>
    /\ foldOut' = <<fold_entities(foldRows)>>
    /\ UNCHANGED <<impl, tagVars, lockVars, dbVars, memVars, procs, ret, histVars, foldRows>>

----------------------------------------------------------------------------
(* Specifications *)

\* the state after construction: empty post tables and an empty post map; the
\* Tag Store holds the two tags that BlogRepositoryForMemory::new was given
InitCommon ==
    /\ blogs = <<>>
    /\ blog_tags = <<>>
    /\ tags = InitTags
    /\ next_id = 1
    /\ next_tag_id = 3
    /\ store = <<>>
    /\ poisoned = FALSE
    /\ tag_store = [i \in DOMAIN InitTags |-> Tag(i, InitTags[i])]
    /\ lock = NoLock
    /\ serial = <<>>
    /\ procs = [p \in Clients |-> IdleProc]
    /\ ret = NoRet
    /\ deleted = {}
    /\ supplied = <<>>
    /\ written = <<>>

Init ==
    /\ impl \in {"db", "mem"}
    /\ InitCommon
    /\ clean = (impl = "mem")
    /\ foldRows = <<>>
    /\ foldOut = <<>>

\* the status code a handler answers with for the outcome of its repository
\* call; 0 when the handler's task panics and no response is written
HandlerStatus(op, status) ==
    IF status = "Panic" THEN 0
    ELSE CASE op = "create" -> IF status = "Ok" THEN 201 ELSE 404
           [] op = "find" -> IF status = "Ok" THEN 200 ELSE 404
           [] op = "all" -> IF status = "Ok" THEN 200 ELSE 0
           [] op = "update" -> IF status = "Ok" THEN 201 ELSE 404
           [] op = "delete" -> IF status = "Ok" THEN 204 ELSE 404
           [] op = "tag_create" -> IF status = "Ok" THEN 201 ELSE 500
           [] op = "tag_all" -> IF status = "Ok" THEN 200 ELSE 0
           [] op = "tag_delete" -> IF status = "Ok" THEN 204 ELSE 500
           [] OTHER -> 0

\* the handler takes the result of the call it made and answers the request
Handler_respond ==
    /\ ~Ready
    /\ ret' = NoRet
    /\ UNCHANGED <<impl, tagVars, lockVars, dbVars, memVars, procs, histVars, foldVars>>

\* One client: its calls run one after the other, each statement by statement.
\* What a find or all of another task returns between two of these statements
\* is DbFind or DbAll of the tables as they are then.
Writers == {"c1"}

DbNext ==
    \E p \in Writers :
        \/ \E title \in CreateTitles, body \in CreateBodies, tagList \in DbTagLists :
                Db_create_insert_blog(p, title, body, tagList)
        \/ Db_create_insert_tags(p)
        \/ Db_create_commit_find(p)
        \/ \E id \in PostIds : Db_find(p, id)
        \/ Db_all(p)
        \/ \E id \in PostIds, title \in UpdateTitles, body \in UpdateBodies,
              tagsP \in Opt(DbTagLists) :
                Db_update_find(p, id, title, body, tagsP)
        \/ Db_update_row(p)
        \/ Db_update_delete_tags(p)
        \/ Db_update_insert_tags(p)
        \/ Db_update_commit_find(p)
        \/ \E id \in PostIds : Db_delete_tags(p, id)
        \/ Db_delete_row(p)

MemNext ==
    \/ \E title \in CreateTitles, body \in CreateBodies, tagList \in MemTagLists :
            Mem_create(title, body, tagList)
    \/ \E id \in PostIds : Mem_find(id)
    \/ \E order \in Orders(DOMAIN store) : Mem_all(order)
    \/ \E id \in PostIds, title \in UpdateTitles, body \in UpdateBodies,
          tagsP \in Opt(MemTagLists) :
            Mem_update(id, title, body, tagsP)
    \/ \E id \in PostIds : Mem_delete(id)

Next == DbNext \/ MemNext \/ Handler_respond

Spec == Init /\ [][Next]_vars

InitFold ==
    /\ impl = "fold"
    /\ InitCommon
    /\ clean = FALSE
    /\ foldRows \in SeqsUpTo(FlatRows, MaxRows)
    /\ foldOut = <<>>

NextFold == Fold_call

SpecFold == InitFold /\ [][NextFold]_vars

\* Two clients of the persistent store whose calls interleave statement by
\* statement.  One post is created, with a tag; the updates give a title, a
\* body or one of two tag lists, all of tags that exist, so every call on the
\* post succeeds.
ConcTagLists == {<<1>>, <<2>>}

ConcPayloads ==
    {<<<<"t2">>, <<>>, <<>>>>, <<<<>>, <<"b2">>, <<>>>>}
        \cup {<<<<>>, <<>>, <<tagList>>>> : tagList \in ConcTagLists}

InitConc ==
    /\ impl = "db"
    /\ InitCommon
    /\ clean = TRUE
    /\ foldRows = <<>>
    /\ foldOut = <<>>

NextConc ==
    \/ \E p \in Clients :
          \/ next_id = 1 /\ Db_create_insert_blog(p, "t1", "b1", <<1>>)
          \/ Db_create_insert_tags(p)
          \/ Db_create_commit_find(p)
          \/ \E u \in ConcPayloads :
                next_id > 1 /\ Db_update_find(p, 1, u[1], u[2], u[3])
          \/ Db_update_row(p)
          \/ Db_update_delete_tags(p)
          \/ Db_update_insert_tags(p)
          \/ Db_update_commit_find(p)
    \/ Handler_respond

SpecConc == InitConc /\ [][NextConc]_vars

\* One client of the Tag Store and of the Post Store: tags are created,
\* listed and deleted while posts with tags are created.
TagPostLists == {<<1>>, <<1, 2>>}

InitTag ==
    /\ impl \in {"db", "mem"}
    /\ InitCommon
    /\ clean = FALSE
    /\ foldRows = <<>>
    /\ foldOut = <<>>

NextTag ==
    \/ \E p \in Writers :
          \/ \E name \in TagNames : Tag_db_create_select(p, name)
          \/ Tag_db_create_insert(p)
          \/ Tag_db_all(p)
          \/ \E id \in TagIdsIn : Tag_db_delete(p, id)
          \/ \E tagList \in TagPostLists :
                Db_create_insert_blog(p, "t1", "b1", tagList)
          \/ Db_create_insert_tags(p)
          \/ Db_create_commit_find(p)
    \/ \E name \in TagNames : TagMem_create(name)
    \/ \E order \in Orders(DOMAIN tag_store) : TagMem_all(order)
    \/ \E id \in TagIdsIn : TagMem_delete(id)
    \/ \E tagList \in TagPostLists : Mem_create("t1", "b1", tagList)
    \/ Handler_respond

SpecTag == InitTag /\ [][NextTag]_vars

\* Two client tasks on one BlogRepositoryForMemory whose calls interleave step
\* by step.  The creates give one resolvable or one unknown tag; the updates
\* of post 1 give a title, a body or a tag list.
MemConcTagLists == {<<1>>, <<3>>}
MemConcPayloads ==
    {<<<<"t2">>, <<>>, <<>>>>, <<<<>>, <<"b2">>, <<>>>>, <<<<>>, <<>>, <<<<2>>>>>>}

InitMemConc ==
    /\ impl = "memc"
    /\ InitCommon
    /\ clean = FALSE
    /\ foldRows = <<>>
    /\ foldOut = <<>>

NextMemConc ==
    \/ \E p \in Clients :
          \/ \E tagList \in MemConcTagLists : MemConc_create_lock(p, "t1", "b1", tagList)
          \/ MemConc_create_len(p)
          \/ MemConc_create_insert(p)
          \/ MemConc_find_lock(p, 1)
          \/ MemConc_find_get(p)
          \/ MemConc_all_lock(p)
          \/ \E order \in Orders(DOMAIN store) : MemConc_all_values(p, order)
          \/ \E u \in MemConcPayloads : MemConc_update_lock(p, 1, u[1], u[2], u[3])
          \/ MemConc_update_get(p)
          \/ MemConc_update_insert(p)
          \/ MemConc_delete_lock(p, 1)
          \/ MemConc_delete_remove(p)
    \/ Handler_respond

SpecMemConc == InitMemConc /\ [][NextMemConc]_vars

\* Two client tasks on one TagRepositoryForDb whose creates interleave
\* statement by statement, with deletes in between.
InitTagConc ==
    /\ impl = "db"
    /\ InitCommon
    /\ clean = FALSE
    /\ foldRows = <<>>
    /\ foldOut = <<>>

NextTagConc ==
    \/ \E p \in Clients :
          \/ \E name \in TagNames : Tag_db_create_select(p, name)
          \/ Tag_db_create_insert(p)
          \/ \E id \in TagIdsIn : Tag_db_delete(p, id)
    \/ Handler_respond

SpecTagConc == InitTagConc /\ [][NextTagConc]_vars

----------------------------------------------------------------------------
(* Observations the properties are stated with *)

\* find(id) on the wired store as it is now, with no storage fault
FindNow(id) ==
    IF impl = "db" THEN DbFind(blogs, blog_tags, tags, id)
    ELSE IF poisoned THEN Err("Panic")
    ELSE MemFind(store, id)

\* the tables (or the map) as they are now, in the shape of a call's pre
StoreNow == IF impl = "db" THEN <<blogs, blog_tags>> ELSE <<store>>

\* find(id) on the store as the returned call rt found it
PreFind(rt) ==
    IF impl = "db" THEN DbFind(rt.pre[1], rt.pre[2], tags, rt.id)
    ELSE MemFind(rt.pre[1], rt.id)

TagIds(tagSeq) == [i \in 1 .. Len(tagSeq) |-> tagSeq[i].id]

\* the tags of a list of ids of existing tags
TagsOf(ids) == [i \in 1 .. Len(ids) |-> Tag(ids[i], InitTags[ids[i]])]

InFlight(p) == procs[p].pc # "idle"

----------------------------------------------------------------------------
(* C1: persistent update is atomic on failure.  Whenever update on the      *)
(* persistent store returns an error, the posts table and the association   *)
(* table are as the call found them.                                        *)
C1_UpdateAtomicOnFailure ==
    (impl = "db" /\ ret.op = "update" /\ ret.status # "Ok")
        => <<blogs, blog_tags>> = ret.pre

\* an update failed after its row update ran
C1_Witness ==
    /\ impl = "db" /\ ret.op = "update" /\ ret.status # "Ok"
    /\ ret.id \in DOMAIN blogs
    /\ blogs[ret.id] # ret.pre[1][ret.id]

(* C2: persistent create never shows a post row without its associations.   *)
(* While a create is in flight and after it has returned, a find of its     *)
(* post finds nothing or a post with one tag per id of tag_ids; a create    *)
(* that returned an error has left no post row.                             *)
C2_CreateNeverPartial ==
    impl = "db" =>
        /\ \A p \in Clients :
              procs[p].op = "create" =>
                 LET f == DbFind(blogs, blog_tags, tags, procs[p].id)
                 IN \/ f.status = "NotFound"
                    \/ f.status = "Ok" /\ TagIds(f.value[1].tags) = procs[p].tagsP[1]
        /\ (ret.op = "create" /\ ret.status # "Ok") => ret.id \notin DOMAIN blogs

\* a create returned an error after its post row was inserted
C2_Witness ==
    /\ impl = "db" /\ ret.op = "create" /\ ret.status # "Ok"
    /\ ret.id \in DOMAIN blogs

(* C3: find, update and delete called with an id that no post has fail with *)
(* NotFound and leave the store unchanged, in both implementations (calls   *)
(* on a poisoned lock aside).                                               *)
C3_NotFoundOnMissingId ==
    (/\ ret.op \in {"find", "update", "delete"}
     /\ ret.status # "Panic"
     /\ ret.id \notin DOMAIN ret.pre[1])
        => ret.status = "NotFound" /\ StoreNow = ret.pre

\* a delete of an id that no post has returned
C3_Witness ==
    /\ ret.op = "delete"
    /\ ret.id \notin DOMAIN ret.pre[1]

(* C4: fold correctness.  For every sequence of flat join rows,             *)
(* fold_entities returns one post per distinct post id, in the order the    *)
(* ids were first seen, with id, title and body of the first row of the     *)
(* post and with the non-null (tag id, tag name) pairs of its rows, in row  *)
(* order, as its tags.                                                      *)
RECURSIVE FirstSeen(_, _)
FirstSeen(rows, seen) ==
    IF rows = <<>> THEN <<>>
    ELSE IF Head(rows).id \in seen THEN FirstSeen(Tail(rows), seen)
    ELSE <<Head(rows).id>> \o FirstSeen(Tail(rows), seen \cup {Head(rows).id})

RowsOf(rows, id) == SelectSeq(rows, LAMBDA r : r.id = id)

PairsOf(rows) ==
    LET full == SelectSeq(rows, LAMBDA r : r.label_id # <<>> /\ r.tag_name # <<>>)
    IN [i \in 1 .. Len(full) |-> Tag(full[i].label_id[1], full[i].tag_name[1])]

FoldExpected(rows) ==
    LET ids == FirstSeen(rows, {})
    IN [i \in 1 .. Len(ids) |->
          LET mine == RowsOf(rows, ids[i])
          IN BlogEntity(ids[i], mine[1].title, mine[1].body, PairsOf(mine))]

C4_FoldCorrect ==
    foldOut # <<>> =>
        /\ ~foldOut[1].panic
        /\ foldOut[1].blogs = FoldExpected(foldRows)

\* fold_entities returned for rows of two posts, one of them with two tags
C4_Witness ==
    /\ foldOut # <<>> /\ ~foldOut[1].panic
    /\ Len(foldOut[1].blogs) = 2
    /\ \E i \in 1 .. 2 : Len(foldOut[1].blogs[i].tags) = 2

(* C5: round trip.  When create succeeds and returns post p, a find of      *)
(* p.id that follows immediately succeeds and returns a post equal to p.    *)
C5_RoundTrip ==
    (ret.op = "create" /\ ret.status = "Ok")
        => /\ ret.value[1].id = ret.id
           /\ FindNow(ret.id) = Ok(ret.value)

\* a create succeeded on a store that a delete had left with one post of two
C5_Witness ==
    /\ ret.op = "create" /\ ret.status = "Ok"
    /\ ret.id = 2
    /\ deleted # {}
    /\ Len(ret.value[1].tags) > 0

(* C6: update keeps omitted fields.  After a successful update of an        *)
(* existing post with no concurrent writer, every omitted field has, in     *)
(* the returned post and in a following find, the value it had before the   *)
(* call; with every field omitted the store is as it was, and with tags     *)
(* omitted the association rows are untouched.                              *)
C6_UpdateKeepsOmitted ==
    (ret.op = "update" /\ ret.status = "Ok")
        => LET old == PreFind(ret).value[1]
               new == ret.value[1]
           IN /\ PreFind(ret).status = "Ok"
              /\ FindNow(ret.id) = Ok(ret.value)
              /\ new.id = old.id
              /\ ret.title = <<>> => new.title = old.title
              /\ ret.body = <<>> => new.body = old.body
              /\ ret.tagsP = <<>> =>
                    /\ new.tags = old.tags
                    /\ impl = "db" => blog_tags = ret.pre[2]
              /\ (ret.title = <<>> /\ ret.body = <<>> /\ ret.tagsP = <<>>) =>
                    /\ new = old
                    /\ StoreNow = ret.pre

\* an update that gave only a body succeeded on a post that has tags
C6_Witness ==
    /\ ret.op = "update" /\ ret.status = "Ok"
    /\ ret.title = <<>> /\ ret.body # <<>> /\ ret.tagsP = <<>>
    /\ ret.value[1].tags # <<>>

(* C7: association replacement.  After a successful update with tags:       *)
(* Some(list), the returned post has exactly the tags of list, a following  *)
(* find returns the same post and none of the previous associations         *)
(* survive; with the empty list both have no tag.                           *)
C7_TagsReplaced ==
    (ret.op = "update" /\ ret.status = "Ok" /\ ret.tagsP # <<>>)
        => LET list == ret.tagsP[1]
               new == ret.value[1]
           IN /\ Len(new.tags) = Len(list)
              /\ {new.tags[i] : i \in 1 .. Len(new.tags)}
                    = {TagsOf(list)[i] : i \in 1 .. Len(list)}
              /\ FindNow(ret.id) = Ok(ret.value)
              /\ list = <<>> => new.tags = <<>>
              /\ impl = "db" =>
                    TagRowsOf(blog_tags, ret.id) = list

\* an update with the empty list succeeded on a post that had tags
C7_Witness ==
    /\ ret.op = "update" /\ ret.status = "Ok"
    /\ ret.tagsP = <<<<>>>>
    /\ PreFind(ret).status = "Ok"
    /\ PreFind(ret).value[1].tags # <<>>

(* C8: delete removes the post and its associations.  After a successful    *)
(* delete(id), and until a post with that id is created again, find(id)     *)
(* fails with NotFound, no association row of the post remains and all()    *)
(* holds no post with that id.                                              *)
AllNow ==
    IF impl = "db" THEN DbAll(blogs, blog_tags, tags)
    ELSE IF poisoned THEN Err("Panic")
    ELSE Ok([i \in 1 .. Cardinality(DOMAIN store) |->
                store[CHOOSE k \in DOMAIN store :
                        Cardinality({j \in DOMAIN store : j < k}) = i - 1]])

C8_DeleteRemoves ==
    \A id \in deleted :
        /\ FindNow(id).status = "NotFound"
        /\ impl = "db" => TagRowsOf(blog_tags, id) = <<>>
        /\ AllNow.status = "Ok" =>
              \A i \in 1 .. Len(AllNow.value) : AllNow.value[i].id # id

\* a delete succeeded on a post that had tags, and a call has followed it
C8_Witness ==
    /\ deleted # {}
    /\ ret.op \in {"find", "create"}
    /\ \E id \in deleted : id \in DOMAIN ret.pre[1] \/ ret.id = id

(* C9: persistent delete is one atomic operation.  While a delete(id) is    *)
(* in flight, a find(id) of another task sees the post with the tags it had *)
(* before the delete, or no post: never the post without its tags.          *)
C9_DeleteAtomic ==
    impl = "db" =>
        \A p \in Clients :
            (procs[p].op = "delete" /\ InFlight(p)) =>
                LET seen == DbFind(blogs, blog_tags, tags, procs[p].id)
                    before == DbFind(procs[p].pre[1], procs[p].pre[2], tags, procs[p].id)
                IN seen.status = "NotFound" \/ seen = before

\* a delete of a post that has tags is between its two statements
C9_Witness ==
    /\ impl = "db"
    /\ \E p \in Clients :
          /\ procs[p].op = "delete" /\ procs[p].pc = "delete_row"
          /\ TagRowsOf(procs[p].pre[2], procs[p].id) # <<>>

(* C10: the association set equals the last supplied list.  When every      *)
(* create and update so far has succeeded and none is in flight, the tag    *)
(* ids that find(id) returns for an existing post are those of the most     *)
(* recent create or update of the post that gave tags: those of the call    *)
(* that returned last when the calls ran one after the other, and those of  *)
(* one of the calls in any case.                                            *)
C10_AssociationsAreLastSupplied ==
    (clean /\ Ready /\ \A p \in Clients : Idle(p)) =>
        \A id \in DOMAIN supplied :
            FindNow(id).status = "Ok" =>
                LET got == SetOf(TagIds(FindNow(id).value[1].tags))
                IN /\ \E list \in supplied[id].given : got = SetOf(list)
                   /\ supplied[id].last # <<>> => got = SetOf(supplied[id].last[1])

\* two updates of one post, with different tags, have both succeeded
C10_Witness ==
    /\ clean /\ ret.op = "update" /\ ret.status = "Ok" /\ ret.tagsP # <<>>
    /\ \A p \in Clients : Idle(p)
    /\ Len(ret.value[1].tags) = 2

(* C11: referential integrity with tag cascade.  Every tag of a post that   *)
(* find or all returns is a tag the Tag Store holds, and every association  *)
(* row belongs to a post that exists; so after a delete of a tag no post    *)
(* has that tag.                                                            *)
TagStoreNow ==
    IF impl = "db" THEN {Tag(i, tags[i]) : i \in DOMAIN tags}
    ELSE {tag_store[k] : k \in DOMAIN tag_store}

C11_ReferentialIntegrity ==
    /\ \A id \in PostIds :
          FindNow(id).status = "Ok" =>
              \A i \in 1 .. Len(FindNow(id).value[1].tags) :
                  FindNow(id).value[1].tags[i] \in TagStoreNow
    /\ AllNow.status = "Ok" =>
          \A j \in 1 .. Len(AllNow.value) :
              \A i \in 1 .. Len(AllNow.value[j].tags) :
                  AllNow.value[j].tags[i] \in TagStoreNow
    /\ impl = "db" => DOMAIN blog_tags \subseteq DOMAIN blogs

\* a tag that a post had has been deleted from the Tag Store
C11_Witness ==
    /\ ret.op = "tag_delete" /\ ret.status = "Ok"
    /\ \E id \in PostIds :
          /\ FindNow(id).status = "Ok"
          /\ IF impl = "db" THEN ret.id \in SetOf(TagRowsOf(ret.pre[2], id))
             ELSE ret.id \in SetOf(TagIds(FindNow(id).value[1].tags))

(* C12: tag uniqueness, persistent store, calls one after the other.        *)
(* create(name) called when a tag with that name exists fails with          *)
(* Duplicate and leaves the tables as they were, so exactly one tag has     *)
(* that name afterwards.                                                    *)
C12_TagDuplicate ==
    (/\ impl = "db" /\ ret.op = "tag_create"
     /\ \E i \in DOMAIN ret.pre[1] : ret.pre[1][i] = ret.name)
        => /\ ret.status = "Duplicate"
           /\ <<tags, blog_tags>> = ret.pre
           /\ Cardinality({i \in DOMAIN tags : tags[i] = ret.name}) = 1

\* the second of two creates with one name has returned
C12_Witness ==
    /\ impl = "db" /\ ret.op = "tag_create" /\ ret.status = "Duplicate"
    /\ ret.name = "tag3"
    /\ ret.id \in DOMAIN tags /\ tags[ret.id] = "tag3"

(* C13: Tag Store delete(id) fails with NotFound and changes nothing when   *)
(* no tag has the id, and succeeds removing exactly that tag when one has,  *)
(* in both implementations.                                                 *)
TagTableNow == IF impl = "db" THEN tags ELSE tag_store

C13_TagDelete ==
    ret.op = "tag_delete" =>
        IF ret.id \notin DOMAIN ret.pre[1]
        THEN ret.status = "NotFound" /\ TagTableNow = ret.pre[1]
        ELSE /\ ret.status = "Ok"
             /\ DOMAIN TagTableNow = DOMAIN ret.pre[1] \ {ret.id}
             /\ \A k \in DOMAIN TagTableNow : TagTableNow[k] = ret.pre[1][k]

\* a delete of an id that no tag has returned
C13_Witness ==
    /\ ret.op = "tag_delete"
    /\ ret.id \notin DOMAIN ret.pre[1]

(* C14: Post Store all() returns every existing post exactly once, in       *)
(* strictly descending order of post id, in both implementations.           *)
C14_AllDescending ==
    (ret.op = "all" /\ ret.status # "Panic") =>
        /\ ret.status = "Ok"
        /\ Len(ret.value) = Cardinality(DOMAIN ret.pre[1])
        /\ \A id \in DOMAIN ret.pre[1] :
              \E i \in 1 .. Len(ret.value) :
                  /\ ret.value[i].id = id
                  /\ Ok(<<ret.value[i]>>) = FindNow(id)
        /\ \A i, j \in 1 .. Len(ret.value) :
              i < j => ret.value[i].id > ret.value[j].id

\* all() returned two posts
C14_Witness ==
    /\ ret.op = "all" /\ ret.status = "Ok"
    /\ Len(ret.value) = 2
    /\ ret.value[1].tags # <<>>

(* C15: Tag Store all() returns every existing tag exactly once, in         *)
(* ascending order of tag id, in both implementations, and the empty        *)
(* sequence on an empty store.                                              *)
C15_TagAllAscending ==
    ret.op = "tag_all" =>
        /\ ret.status = "Ok"
        /\ Len(ret.value) = Cardinality(DOMAIN ret.pre[1])
        /\ {ret.value[i] : i \in 1 .. Len(ret.value)} = TagStoreNow
        /\ \A i, j \in 1 .. Len(ret.value) :
              i < j => ret.value[i].id < ret.value[j].id

\* all() returned the tags of a store that holds two
C15_Witness ==
    /\ ret.op = "tag_all" /\ ret.status = "Ok"
    /\ Len(ret.value) = 2

(* C16: every failing repository operation returns one of the three error   *)
(* kinds NotFound, Duplicate, Unexpected: no operation panics and no        *)
(* storage error reaches the caller as it came from the storage layer.      *)
C16_ErrorsClassified ==
    (ret # NoRet /\ ret.status # "Ok") =>
        ret.status \in {"NotFound", "Duplicate", "Unexpected"}

\* a call returned an error
C16_Witness == ret # NoRet /\ ret.status \notin {"Ok", "NotFound"}

(* C17: the handlers answer a successful creation with 201, a successful    *)
(* read with 200, a successful deletion with 204, a NotFound error with     *)
(* 404 and any other repository error with 500.                             *)
C17_StatusMapping ==
    (ret # NoRet /\ ret.status # "Panic") =>
        LET code == HandlerStatus(ret.op, ret.status)
        IN IF ret.status = "Ok"
           THEN /\ ret.op \in {"create", "tag_create"} => code = 201
                /\ ret.op \in {"find", "all", "tag_all"} => code = 200
                /\ ret.op \in {"delete", "tag_delete"} => code = 204
           ELSE IF ret.status = "NotFound" THEN code = 404
           ELSE code = 500

\* a repository call returned an error to its handler
C17_Witness ==
    /\ ret # NoRet
    /\ ret.status \notin {"Ok", "Panic"}
    /\ HandlerStatus(ret.op, ret.status) # 0

\* the ids of the tags the wired Post Store knows
KnownTagIds ==
    IF impl = "db" THEN DOMAIN tags
    ELSE {MemTags[i].id : i \in DOMAIN MemTags}

(* C18: create, and update of an existing post with Some(tag_ids), given a  *)
(* list of ids of existing tags in any order, succeeds and returns a post   *)
(* holding one tag per id of the list.                                      *)
C18_ResolvesAnyOrder ==
    (/\ ret.op \in {"create", "update"}
     /\ ret.tagsP # <<>>
     /\ \A i \in 1 .. Len(ret.tagsP[1]) : ret.tagsP[1][i] \in KnownTagIds
     /\ ret.op = "update" => PreFind(ret).status = "Ok")
        => /\ ret.status = "Ok"
           /\ Len(ret.value[1].tags) = Len(ret.tagsP[1])
           /\ SetOf(TagIds(ret.value[1].tags)) = SetOf(ret.tagsP[1])

\* a create given two existing tags, the higher id first, has returned
C18_Witness ==
    /\ ret.op = "create"
    /\ ret.tagsP = <<<<2, 1>>>>

(* C19: fold_entities handles null tag fields.  It returns a result for     *)
(* every input; when the last row has null tag fields and the accumulator   *)
(* made from the rows before it has no post of its id, the row adds a post  *)
(* with no tag, and when the accumulator has that post already, the row     *)
(* leaves the accumulator as it is.                                         *)
C19_FoldNullTagFields ==
    foldOut # <<>> =>
        /\ ~foldOut[1].panic
        /\ (/\ foldRows # <<>>
            /\ foldRows[Len(foldRows)].label_id = <<>>
            /\ foldRows[Len(foldRows)].tag_name = <<>>)
              => LET row == foldRows[Len(foldRows)]
                     accum == FoldExpected(SubSeq(foldRows, 1, Len(foldRows) - 1))
                 IN IF \E i \in 1 .. Len(accum) : accum[i].id = row.id
                    THEN foldOut[1].blogs = accum
                    ELSE foldOut[1].blogs =
                            Append(accum, BlogEntity(row.id, row.title, row.body, <<>>))

\* fold_entities was given a row with null tag fields after a row of the same
\* post
C19_Witness ==
    /\ foldOut # <<>>
    /\ Len(foldRows) >= 2
    /\ foldRows[Len(foldRows)].label_id = <<>>
    /\ foldRows[Len(foldRows)].id = foldRows[1].id

(* C20: calls on one in-memory Post Store are atomic with respect to each   *)
(* other.  Under any interleaving of the steps of concurrent calls the map  *)
(* is the one the completed writes give when each is applied whole, in the  *)
(* order in which they took the lock; every find and all returns what that  *)
(* map holds, and every write returns what its whole application to that    *)
(* map gives.                                                               *)
C20_MemAtomic ==
    impl = "memc" =>
        /\ store = serial
        /\ (ret.op = "find" /\ ret.status # "Panic")
              => ret.status = MemFind(serial, ret.id).status
                 /\ ret.value = MemFind(serial, ret.id).value
        /\ (ret.op = "all" /\ ret.status # "Panic")
              => /\ Len(ret.value) = Cardinality(DOMAIN serial)
                 /\ \A k \in DOMAIN serial :
                       \E i \in 1 .. Len(ret.value) : ret.value[i] = serial[k]
        /\ (ret.op \in {"create", "update", "delete"} /\ ret.status # "Panic")
              => /\ serial = Whole(ret.pre[1], ret)
                 /\ ret.op = "create"
                       => ret.id = Cardinality(DOMAIN ret.pre[1]) + 1
                          /\ ret.value = <<serial[ret.id]>>
                 /\ ret.op \in {"update", "delete"}
                       => (ret.status = "Ok") = (ret.id \in DOMAIN ret.pre[1])
                 /\ (ret.op = "update" /\ ret.status = "Ok")
                       => ret.value = <<serial[ret.id]>>

\* an update returned a post that holds what two earlier updates and this
\* one gave, each a different field
C20_Witness ==
    /\ impl = "memc"
    /\ ret.op = "update" /\ ret.status = "Ok"
    /\ ret.value[1].title = "t2" /\ ret.value[1].body = "b2"
    /\ ret.value[1].tags = <<Tag(2, "tag2")>>

(* C21: tag names stay unique under concurrency.  In every state reached by *)
(* interleaved create calls on the persistent Tag Store, each a select by   *)
(* name followed by an insert, no two tags have the same name.              *)
C21_TagNamesUnique ==
    impl = "db" =>
        \A i, j \in DOMAIN tags : tags[i] = tags[j] => i = j

\* two creates of one name both found no tag; the insert of the second was
\* refused and the name is there once
C21_Witness ==
    /\ impl = "db"
    /\ ret.op = "tag_create" /\ ret.status = "Sqlx"
    /\ ~ret.alone
    /\ \E i \in DOMAIN tags : tags[i] = ret.name

(* C22: in-memory Tag Store create is idempotent per name.  create(name)    *)
(* called when a tag of that name exists returns that tag, with its id,     *)
(* without error and leaves the map as it was; the map never holds two      *)
(* tags of one name.                                                        *)
C22_TagMemCreateIdempotent ==
    impl = "mem" =>
        /\ \A i, j \in DOMAIN tag_store :
              tag_store[i].name = tag_store[j].name => i = j
        /\ (/\ ret.op = "tag_create"
            /\ \E k \in DOMAIN ret.pre[1] : ret.pre[1][k].name = ret.name)
              => /\ ret.status = "Ok"
                 /\ ret.id \in DOMAIN ret.pre[1]
                 /\ ret.value = <<ret.pre[1][ret.id]>>
                 /\ ret.value[1].name = ret.name
                 /\ tag_store = ret.pre[1]

\* create was called with the name of a tag made by an earlier create
C22_Witness ==
    /\ impl = "mem"
    /\ ret.op = "tag_create" /\ ret.status = "Ok"
    /\ ret.name = "tag3"
    /\ tag_store = ret.pre[1]

(* C23: in-memory create assigns a fresh id.  A successful create on the    *)
(* in-memory Post Store, and on the in-memory Tag Store for a new name,     *)
(* returns an id that no stored record had, adds exactly one record and     *)
(* leaves every record stored before as it was.                             *)
C23_MemCreateFreshId ==
    (/\ impl = "mem"
     /\ ret.status = "Ok"
     /\ \/ ret.op = "create"
        \/ /\ ret.op = "tag_create"
           /\ \A k \in DOMAIN ret.pre[1] : ret.pre[1][k].name # ret.name)
        => LET before == ret.pre[1]
               after == IF ret.op = "create" THEN store ELSE tag_store
           IN /\ ret.value[1].id \notin DOMAIN before
              /\ Cardinality(DOMAIN after) = Cardinality(DOMAIN before) + 1
              /\ \A k \in DOMAIN before : k \in DOMAIN after /\ after[k] = before[k]

\* a create succeeded on a map that a delete had shrunk
C23_Witness ==
    /\ impl = "mem"
    /\ ret.op \in {"create", "tag_create"} /\ ret.status = "Ok"
    /\ ret.pre[1] # <<>>
    /\ 1 \notin DOMAIN ret.pre[1]

(* C24: a failed in-memory create or update does not damage the store.      *)
(* A call that fails on a tag id it cannot resolve leaves the stored posts  *)
(* as they were, and the calls after it behave as if it had not been made:  *)
(* find, all and delete do not fail because of it, and a create or update   *)
(* fails this way only on an unresolvable list of its own.                  *)
C24_FailedCallLeavesStoreUsable ==
    (impl = "mem" /\ ret.op \in {"create", "find", "all", "update", "delete"})
        => /\ ret.status = "Panic" => store = ret.pre[1]
           /\ ret.op \in {"find", "all", "delete"} => ret.status # "Panic"
           /\ ret.op = "find" =>
                 ret.status = MemFind(store, ret.id).status
                 /\ ret.value = MemFind(store, ret.id).value
           /\ (ret.op \in {"create", "update"} /\ ret.status = "Panic")
                 => ret.tagsP # <<>> /\ resolve_tags(ret.tagsP[1]).panic

\* a call returned on a store on which a create or update had failed before
C24_Witness ==
    /\ impl = "mem"
    /\ poisoned
    /\ ret.op \in {"find", "all", "delete"}
    /\ store # <<>>

(* C25: no lost update in the persistent Post Store.  When updates of one   *)
(* post that give only a title and only a body have run, concurrently or    *)
(* not, and have succeeded, then once no call is in flight find(id)         *)
(* returns the post with the title and the body they gave.                  *)
C25_NoLostUpdate ==
    (impl = "db" /\ clean /\ \A p \in Clients : Idle(p)) =>
        \A id \in DOMAIN written :
            /\ FindNow(id).status = "Ok"
            /\ written[id].title # {} => FindNow(id).value[1].title \in written[id].title
            /\ written[id].body # {} => FindNow(id).value[1].body \in written[id].body

\* an update that gave only a title and one that gave only a body have both
\* returned Ok, the second of them having started while the first was in flight
C25_Witness ==
    /\ impl = "db" /\ clean
    /\ \A p \in Clients : Idle(p)
    /\ 1 \in DOMAIN written
    /\ written[1].title = {"t2"} /\ written[1].body = {"b2"}
    /\ ret.op = "update" /\ ret.status = "Ok" /\ ~ret.alone
    /\ ret.tagsP = <<>>

\* find(k) on the tables (or the map) st, in the shape of a call's pre
PostAt(st, k) ==
    IF impl = "db" THEN DbFind(st[1], st[2], tags, k)
    ELSE MemFind(st[1], k)

(* C26: update and delete touch only their target.  After update(id, ..)    *)
(* or delete(id), successful or failed, every post with another id is, with *)
(* its tags, as it was before the call, and the other ids are the same.     *)
C26_OnlyTargetTouched ==
    (impl \in {"db", "mem"} /\ ret.op \in {"update", "delete"})
        => /\ DOMAIN StoreNow[1] \ {ret.id} = DOMAIN ret.pre[1] \ {ret.id}
           /\ \A k \in (PostIds \cup DOMAIN ret.pre[1]) \ {ret.id} :
                 PostAt(StoreNow, k) = PostAt(ret.pre, k)

\* an update of post 1 returned Ok while post 2, with a tag, was stored
C26_Witness ==
    /\ impl = "db"
    /\ ret.op = "update" /\ ret.status = "Ok" /\ ret.id = 1
    /\ ret.title # <<>> /\ ret.tagsP # <<>>
    /\ PostAt(ret.pre, 2).status = "Ok"
    /\ PostAt(ret.pre, 2).value[1].tags # <<>>
    /\ PostAt(ret.pre, 2).value[1].title # ret.title[1]

====
